---- MODULE Spec2Model ----
(***************************************************************************)
(* Model of clone_all.py (GitLabCloner): the "Check" handler that resolves *)
(* a group and lists its projects into the ListStore, the selection        *)
(* handlers (cell toggle, "Select All"), and the "Clone" handler, whose    *)
(* loop runs one `git clone` per selected row and then pumps the GTK main  *)
(* loop, so that other handlers (a nested "Clone" included) run inside it. *)
(*                                                                         *)
(* Strings the code takes apart (clone URLs, paths) are sequences of       *)
(* one-character strings.                                                  *)
(***************************************************************************)
EXTENDS Integers, Sequences, FiniteSets, TLC

\* ------------------------------------------------------------------ bounds
MaxGroupId   == 3    \* group ids the search answers with: 0..MaxGroupId
MaxMatches   == 2    \* groups in one search response
MaxProjects  == 2    \* projects of the largest small group on the server
MaxDepth     == 2    \* nested activations of on_clone_clicked
MaxGroupSize == 102  \* size of the largest group a single listing is asked for
MaxPieces    == 4    \* pieces a clone URL is assembled from

\* ------------------------------------------------------- program constants
PerPage  == 100      \* per_page=100 in the project listing request
StatusOK == 200      \* response.status_code == 200

\* --------------------------------------------------------------- variables
VARIABLES
    projects_store,  \* Gtk.ListStore(bool, str, str): rows [selected, name, url]
    progress_bar,    \* fraction last given to progress_bar.set_fraction
    stack,           \* activations of on_clone_clicked, innermost last
    finished,        \* the activation of on_clone_clicked that returned in the last step
    lastOp,          \* the handler or step that ran last, with its inputs
    call             \* the last call of a function called on its own

vars == <<projects_store, progress_bar, stack, finished, lastOp, call>>

\* ------------------------------------------------------------ small helpers
Min(a, b) == IF a < b THEN a ELSE b

DotGit == <<".", "g", "i", "t">>

Digit(d) == CASE d = 0 -> "0" [] d = 1 -> "1" [] d = 2 -> "2" [] d = 3 -> "3"
              [] d = 4 -> "4" [] d = 5 -> "5" [] d = 6 -> "6" [] d = 7 -> "7"
              [] d = 8 -> "8" [] OTHER -> "9"

RECURSIVE Digits(_)
Digits(n) == IF n < 10 THEN <<Digit(n)>> ELSE Digits(n \div 10) \o <<Digit(n % 10)>>

\* --------------------------------------------------- the GitLab API (server)
\* HTTP statuses the two endpoints answer with
Statuses == {200, 404}

\* JSON object of project number k of group g
ApiProject(g, k) ==
    [name |-> <<"p">> \o Digits(k),
     ssh_url_to_repo |-> <<"h", ":">> \o Digits(g) \o <<"/", "p">> \o Digits(k) \o DotGit]

\* all projects of a group of n projects, in the server's order
GroupOfSize(g, n) == [k \in 1..n |-> ApiProject(g, k)]

\* the projects of the small groups the search can answer with
ServerProjects(g) == GroupOfSize(g, (g + 1) % (MaxProjects + 1))

\* GET /groups/<id>/projects?per_page=<n>: the first page of the listing
ApiFirstPage(all, per_page) == SubSeq(all, 1, Min(per_page, Len(all)))

\* bodies of a successful GET /groups?search=<name>: up to MaxMatches groups,
\* in any order, no group twice
RECURSIVE SeqsUpTo(_, _)
SeqsUpTo(S, n) ==
    IF n = 0 THEN {<<>>}
    ELSE LET shorter == SeqsUpTo(S, n - 1)
         IN  shorter \cup {Append(s, x) : s \in {t \in shorter : Len(t) = n - 1}, x \in S}

SearchBodies ==
    {body \in SeqsUpTo({[id |-> g] : g \in 0..MaxGroupId}, MaxMatches) :
        \A i, j \in DOMAIN body : i # j => body[i] # body[j]}

\* what the search answers with `status`: a list of groups when it succeeds;
\* an error response holds no list (and its body is not read)
SearchResponses(status) == IF status = 200 THEN SearchBodies ELSE {<<>>}

\* ----------------------------------------------------------- get_group_id
None == "None"

\* the None that get_group_id returns, among group ids (which are >= 0)
NoGroupId == -1

get_group_id(status, body) ==
    IF status = StatusOK /\ body # <<>> THEN body[1].id ELSE NoGroupId

\* ------------------------------------------------ get_projects_from_group
get_projects_from_group_unchecked(status, all) ==
    LET projects == ApiFirstPage(all, PerPage)
    IN  [i \in 1..Len(projects) |->
            <<projects[i].name, projects[i].ssh_url_to_repo>>]

get_projects_from_group(status, all) ==
    IF status = StatusOK
    THEN LET projects == ApiFirstPage(all, PerPage)
         IN  [i \in 1..Len(projects) |->
                 <<projects[i].name, projects[i].ssh_url_to_repo>>]
    ELSE <<>>

\* ------------------------------------------------------------ get_projects
\* `if group_id:` is Python truthiness: None and 0 are both false
Truthy(group_id) == group_id # NoGroupId /\ group_id # 0

\* the listing is requested for a true group_id only: its status is then one
\* of Statuses, and 0 stands for "no request made"
ListingStatuses(group_id) == IF Truthy(group_id) THEN Statuses ELSE {0}

get_projects(search_status, search_body, list_status) ==
    LET group_id == get_group_id(search_status, search_body)
    IN  IF Truthy(group_id)
        THEN get_projects_from_group(list_status, ServerProjects(group_id))
        ELSE <<>>

\* --------------------------------------------------------- on_check_clicked
\* projects_store.clear(); then one append([False, name, url]) per project
RECURSIVE append_all_keeping(_, _)
append_all_keeping(store, projects) ==
    IF projects = <<>> THEN store
    ELSE append_all_keeping(
             Append(store, [selected |-> FALSE, name |-> projects[1][1], url |-> projects[1][2]]),
             Tail(projects))

on_check_clicked_no_clear(store, projects) == append_all_keeping(store, projects)

on_check_clicked(store, projects) == append_all_keeping(<<>>, projects)

\* ---------------------------------------------------------- on_cell_toggled
on_cell_toggled_set(store, path) == [store EXCEPT ![path].selected = TRUE]

on_cell_toggled_name_column(store, path) ==
    [store EXCEPT ![path].name = IF store[path].selected THEN <<"F">> ELSE <<"T">>]

on_cell_toggled(store, path) ==
    [store EXCEPT ![path].selected = ~store[path].selected]

\* ---------------------------------------------------- on_select_all_clicked
on_select_all_clicked_first(store) ==
    [i \in 1..Len(store) |-> IF i = 1 THEN [store[i] EXCEPT !.selected = TRUE] ELSE store[i]]

on_select_all_clicked(store) ==
    [i \in 1..Len(store) |-> [store[i] EXCEPT !.selected = TRUE]]

\* ------------------------------------------------------------ clone_project
\* s.split("/")[-1]: what follows the last "/" (all of s when it has none)
RECURSIVE LastSegment(_)
LastSegment(s) ==
    IF s = <<>> THEN <<>>
    ELSE IF s[Len(s)] = "/" THEN <<>>
    ELSE Append(LastSegment(SubSeq(s, 1, Len(s) - 1)), s[Len(s)])

\* s.replace(".git", ""): every non-overlapping occurrence, left to right
RECURSIVE ReplaceDotGit(_)
ReplaceDotGit(s) ==
    IF Len(s) < Len(DotGit) THEN s
    ELSE IF SubSeq(s, 1, Len(DotGit)) = DotGit
         THEN ReplaceDotGit(SubSeq(s, Len(DotGit) + 1, Len(s)))
         ELSE <<s[1]>> \o ReplaceDotGit(Tail(s))

\* project_name = project_url.split("/")[-1].replace(".git", "")
ProjectName(project_url) == ReplaceDotGit(LastSegment(project_url))

\* full_clone_path = f"{clone_dir}/{project_name}"
FullClonePath(project_url, clone_dir) == clone_dir \o <<"/">> \o ProjectName(project_url)

\* exit statuses of `git clone`
ExitCodes == {0, 128}

\* subprocess.run(..., check=True) raises CalledProcessError on a non-zero
\* exit status; clone_project catches it and returns normally
clone_project_raising(project_url, clone_dir, exit) ==
    [argv   |-> <<project_url, FullClonePath(project_url, clone_dir)>>,
     exit   |-> exit,
     raised |-> IF exit # 0 THEN "CalledProcessError" ELSE None]

clone_project(project_url, clone_dir, exit) ==
    [argv   |-> <<project_url, FullClonePath(project_url, clone_dir)>>,
     exit   |-> exit,
     raised |-> None]

\* --------------------------------------------------------- on_clone_clicked
\* destination directories dir_chooser.get_filename() answers with
CloneDirs == {<<"/", "d">>}

\* total_projects = sum(1 for row in self.projects_store if row[0])
total_projects(store) == Cardinality({i \in DOMAIN store : store[i].selected})

\* `if is_selected:`
IsSelectedAny(row) == TRUE

IsSelected(row) == row.selected

\* fraction = cloned_projects / total_projects, kept as the pair <<num, den>>
ZeroDivisionError == "ZeroDivisionError"

FractionStale(cloned, total) ==
    IF total = 0 THEN ZeroDivisionError ELSE <<cloned - 1, total>>

Fraction(cloned, total) ==
    IF total = 0 THEN ZeroDivisionError ELSE <<cloned, total>>

\* Gtk.ListStore iterators are row numbers here, 0 for "no row" (None)
get_iter_first(store) == IF Len(store) > 0 THEN 1 ELSE 0

iter_next(store, it) == IF it < Len(store) THEN it + 1 ELSE 0

\* `for row in self.projects_store` from the iterator `it` on: the rows that
\* are not selected are passed over (nothing runs between them) up to the
\* first selected row; TreeModelRowIter has then already moved to the row
\* after it. row = 0: the iteration is over.
RECURSIVE NextSelectedRow(_, _)
NextSelectedRow(store, it) ==
    IF it = 0 THEN [row |-> 0, iter |-> 0]
    ELSE IF IsSelected(store[it]) THEN [row |-> it, iter |-> iter_next(store, it)]
    ELSE NextSelectedRow(store, iter_next(store, it))

\* the urls of the selected rows of a store, in the store's order
SelectedUrls(store) ==
    LET sel == SelectSeq(store, LAMBDA row : row.selected)
    IN  [k \in 1..Len(sel) |-> sel[k].url]

\* an activation of on_clone_clicked: its locals, where it stands, and the
\* record of what it did
NewFrame(store, clone_dir) ==
    [clone_dir       |-> clone_dir,
     total_projects  |-> total_projects(store),
     cloned_projects |-> 0,
     iter            |-> get_iter_first(store),
     valid           |-> TRUE,         \* the iterator's stamp is the store's
     pc              |-> "for",
     project_url     |-> <<>>,
     selected_at_start |-> SelectedUrls(store),  \* what was selected at the click
     attempts        |-> <<>>,         \* subprocess.run calls, with exit status
     events          |-> <<>>,         \* fractions given to set_fraction
     clean           |-> TRUE]         \* no handler ran inside its pump

Returned(fr, error) ==
    [returned |-> TRUE, error |-> error, total_projects |-> fr.total_projects,
     selected_at_start |-> fr.selected_at_start, attempts |-> fr.attempts,
     events |-> fr.events, clean |-> fr.clean]

NoRun ==
    [returned |-> FALSE, error |-> None, total_projects |-> 0,
     selected_at_start |-> <<>>, attempts |-> <<>>, events |-> <<>>, clean |-> TRUE]

OpRec(op) ==
    [op |-> op, path |-> 0, search_status |-> 0, search_body |-> <<>>,
     list_status |-> 0]

NoCall == [fn |-> None, in |-> <<>>, out |-> <<>>]

\* the main loop can dispatch a handler: it is idle, or the innermost
\* on_clone_clicked is in `while Gtk.events_pending(): Gtk.main_iteration_do(False)`
\* (subprocess.run blocks: nothing is dispatched while a `git clone` runs)
DispatchableWhileCloning == TRUE

Dispatchable == IF stack = <<>> THEN TRUE ELSE stack[Len(stack)].pc = "pump"

\* a handler runs inside the pump of every activation on the stack
Interfered(stk) == [i \in DOMAIN stk |-> [stk[i] EXCEPT !.clean = FALSE]]

\* projects_store.clear() moves the store's stamp: every iterator held by an
\* activation is invalid afterwards
Invalidated(stk) == [i \in DOMAIN stk |-> [stk[i] EXCEPT !.clean = FALSE, !.valid = FALSE]]

\* the for-loop of activation fr, on top of the activations rest, goes on
\* until it starts the next `git clone` or the handler returns
LoopOn(rest, fr) ==
    LET nx == NextSelectedRow(projects_store, fr.iter)
    IN  IF nx.row = 0
        THEN /\ stack' = rest
             /\ finished' = Returned(fr, None)
        ELSE /\ stack' = Append(rest, [fr EXCEPT !.pc = "clone", !.iter = nx.iter,
                                   !.project_url = projects_store[nx.row].url])
             /\ finished' = NoRun

Init ==
    /\ projects_store = <<>>
    /\ progress_bar = <<0, 1>>
    /\ stack = <<>>
    /\ finished = NoRun
    /\ lastOp = OpRec("init")
    /\ call = NoCall

\* the "toggled" signal of the cell renderer, for an existing row
CellToggled(path) ==
    /\ Dispatchable
    /\ projects_store' = on_cell_toggled(projects_store, path)
    /\ stack' = Interfered(stack)
    /\ lastOp' = [OpRec("toggle") EXCEPT !.path = path]
    /\ finished' = NoRun
    /\ UNCHANGED <<progress_bar, call>>

\* "Select All" clicked
SelectAllClicked ==
    /\ Dispatchable
    /\ projects_store' = on_select_all_clicked(projects_store)
    /\ stack' = Interfered(stack)
    /\ lastOp' = OpRec("select_all")
    /\ finished' = NoRun
    /\ UNCHANGED <<progress_bar, call>>

\* "Check" clicked; the two responses of the API are the inputs
CheckClicked ==
    /\ Dispatchable
    /\ \E search_status \in Statuses :
       \E search_body \in SearchResponses(search_status) :
       \E list_status \in ListingStatuses(get_group_id(search_status, search_body)) :
           LET projects == get_projects(search_status, search_body, list_status)
           IN  /\ projects_store' = on_check_clicked(projects_store, projects)
               /\ lastOp' = [OpRec("check") EXCEPT !.search_status = search_status,
                                 !.search_body = search_body,
                                 !.list_status = list_status]
    /\ stack' = Invalidated(stack)
    /\ finished' = NoRun
    /\ UNCHANGED <<progress_bar, call>>

\* "Clone" clicked: up to the first `git clone` it starts, or to its return
CloneClicked(clone_dir) ==
    /\ Dispatchable
    /\ Len(stack) < MaxDepth
    /\ LoopOn(Interfered(stack), NewFrame(projects_store, clone_dir))
    /\ lastOp' = OpRec("clone_clicked")
    /\ UNCHANGED <<projects_store, progress_bar, call>>

\* the `git clone` of the innermost activation exits: clone_project returns
\* (or raises), the counter and the progress bar are updated, the pump begins
CloneExit(exit) ==
    /\ stack # <<>>
    /\ stack[Len(stack)].pc = "clone"
    /\ LET fr   == stack[Len(stack)]
           rest == SubSeq(stack, 1, Len(stack) - 1)
           run  == clone_project(fr.project_url, fr.clone_dir, exit)
           fr1  == [fr EXCEPT !.attempts = Append(@, [argv |-> run.argv, exit |-> run.exit])]
           cloned   == fr.cloned_projects + 1
           fraction == Fraction(cloned, fr.total_projects)
       IN  IF run.raised # None
           THEN /\ stack' = rest
                /\ finished' = Returned(fr1, run.raised)
                /\ UNCHANGED progress_bar
           ELSE IF fraction = ZeroDivisionError
           THEN /\ stack' = rest
                /\ finished' = Returned(fr1, ZeroDivisionError)
                /\ UNCHANGED progress_bar
           ELSE /\ stack' = Append(rest, [fr1 EXCEPT !.cloned_projects = cloned,
                                              !.events = Append(@, fraction),
                                              !.pc = "pump"])
                /\ progress_bar' = fraction
                /\ finished' = NoRun
    /\ lastOp' = OpRec("clone_exit")
    /\ UNCHANGED <<projects_store, call>>

\* no event is pending any more: the for-loop of the innermost activation
\* goes on. An iterator invalidated by clear() fails the store's stamp test:
\* iter_next answers False and the row's columns cannot be read, so the loop
\* ends, silently or with the TypeError of the failed read.
PumpDone ==
    /\ stack # <<>>
    /\ stack[Len(stack)].pc = "pump"
    /\ LET fr   == stack[Len(stack)]
           rest == SubSeq(stack, 1, Len(stack) - 1)
       IN  IF fr.iter # 0 /\ ~fr.valid
           THEN /\ stack' = rest
                /\ \E error \in {None, "TypeError"} : finished' = Returned(fr, error)
           ELSE LoopOn(rest, fr)
    /\ lastOp' = OpRec("pump_done")
    /\ UNCHANGED <<projects_store, progress_bar, call>>

Next ==
    \/ \E path \in DOMAIN projects_store : CellToggled(path)
    \/ SelectAllClicked
    \/ CheckClicked
    \/ \E clone_dir \in CloneDirs : CloneClicked(clone_dir)
    \/ \E exit \in ExitCodes : CloneExit(exit)
    \/ PumpDone

Spec == Init /\ [][Next]_vars

\* ------------------------------------------- get_projects_from_group alone
\* one listing of a group of n projects, the API answering with `status`
LoadCall(status, n) ==
    /\ call' = [fn  |-> "get_projects_from_group",
                in  |-> [status |-> status, total |-> n],
                out |-> get_projects_from_group(status, GroupOfSize(1, n))]
    /\ UNCHANGED <<projects_store, progress_bar, stack, finished, lastOp>>

NextLoad == \E status \in Statuses, n \in 0..MaxGroupSize : LoadCall(status, n)

SpecLoad == Init /\ [][NextLoad]_vars

\* ------------------------------------------ the directory name derivation alone
\* clone URLs: up to MaxPieces pieces, one after the other
Pieces == {<<"/">>, DotGit, <<"a">>, <<".", "g">>, <<"i", "t">>}

RECURSIVE Concats(_)
Concats(n) ==
    IF n = 0 THEN {<<>>}
    ELSE LET shorter == Concats(n - 1)
         IN  shorter \cup {s \o piece : s \in shorter, piece \in Pieces}

Urls == Concats(MaxPieces)

NameCall(project_url) ==
    /\ call' = [fn  |-> "project_name",
                in  |-> project_url,
                out |-> ProjectName(project_url)]
    /\ UNCHANGED <<projects_store, progress_bar, stack, finished, lastOp>>

NextName == \E project_url \in Urls : NameCall(project_url)

SpecName == Init /\ [][NextName]_vars

\* ================================================================= claims
Top == stack[Len(stack)]

\* C1: for a group of any size (more than one page of 100 included), a
\* successful listing returns every project of the group exactly once, in the
\* API's order: as many entries as the group has projects.
C1_LoadReturnsEveryProject ==
    (call.fn = "get_projects_from_group" /\ call.in.status = 200) =>
        /\ Len(call.out) = call.in.total
        /\ \A k \in 1..call.in.total :
               call.out[k] = <<ApiProject(1, k).name, ApiProject(1, k).ssh_url_to_repo>>

C4_EmptyRun ==
    (finished.returned /\ finished.clean /\ SelectedUrls(projects_store) = <<>>) =>
        /\ finished.attempts = <<>>
        /\ finished.events = <<>>
        /\ finished.error = None
        /\ finished.total_projects = 0
        /\ lastOp.op = "clone_clicked"

C4_Witness ==
    /\ finished.returned
    /\ Len(projects_store) = 2
    /\ SelectedUrls(projects_store) = <<>>
    /\ lastOp.op = "clone_clicked"

\* C5: a toggle flips the selected flag of the targeted row only, every other
\* row and the row's name and url stay as they were, and a second toggle of
\* the same row gives back the catalog it started from.
C5_ToggleStep ==
    lastOp'.op = "toggle" =>
        LET path == lastOp'.path
        IN  /\ path \in DOMAIN projects_store
            /\ Len(projects_store') = Len(projects_store)
            /\ projects_store'[path].selected = ~projects_store[path].selected
            /\ projects_store'[path].name = projects_store[path].name
            /\ projects_store'[path].url = projects_store[path].url
            /\ \A i \in DOMAIN projects_store :
                   i # path => projects_store'[i] = projects_store[i]
            /\ on_cell_toggled(projects_store', path) = projects_store

C5_ToggleOnlyTarget == [][C5_ToggleStep]_vars

C5_Witness ==
    /\ lastOp.op = "toggle"
    /\ Len(projects_store) = 2
    /\ \E i \in DOMAIN projects_store : i # lastOp.path /\ projects_store[i].selected

\* C6: after "Select All", whatever was selected before, every entry is
\* selected, nothing else of the catalog has changed, and the rows the clone
\* loop takes are all the rows of the catalog in their order.
C6_SelectAllStep ==
    lastOp'.op = "select_all" =>
        /\ Len(projects_store') = Len(projects_store)
        /\ \A i \in DOMAIN projects_store :
               /\ projects_store'[i].selected
               /\ projects_store'[i].name = projects_store[i].name
               /\ projects_store'[i].url = projects_store[i].url
        /\ SelectedUrls(projects_store') =
               [i \in 1..Len(projects_store) |-> projects_store[i].url]
        /\ total_projects(projects_store') = Len(projects_store)
        /\ \A i \in DOMAIN projects_store :
               NextSelectedRow(projects_store', i).row = i

C6_SelectAll == [][C6_SelectAllStep]_vars

C6_Witness ==
    /\ lastOp.op = "select_all"
    /\ Len(projects_store) = 2
    /\ \A i \in DOMAIN projects_store : projects_store[i].selected

\* C7: the directory name is the part of the url after its last "/", without
\* a trailing ".git", and with nothing else removed.
C7_TrailingDotGitOnly ==
    call.fn = "project_name" =>
        \E cut \in 0..Len(call.in) :
            LET segment == SubSeq(call.in, cut + 1, Len(call.in))
                n == Len(segment)
            IN  /\ cut = 0 \/ call.in[cut] = "/"
                /\ \A i \in 1..n : segment[i] # "/"
                /\ call.out =
                       IF n >= 4 /\ SubSeq(segment, n - 3, n) = DotGit
                       THEN SubSeq(segment, 1, n - 4)
                       ELSE segment

\* C8: after a check the catalog is exactly the projects that fetch returned,
\* in the API's order, every entry unselected; nothing of the catalog before
\* is left.
C8_CheckReplaces ==
    lastOp.op = "check" =>
        LET fetched == get_projects(lastOp.search_status, lastOp.search_body,
                                    lastOp.list_status)
        IN  /\ Len(projects_store) = Len(fetched)
            /\ \A i \in DOMAIN projects_store :
                   /\ ~projects_store[i].selected
                   /\ projects_store[i].name = fetched[i][1]
                   /\ projects_store[i].url = fetched[i][2]

\* a check in the pump of a run that has cloned a project which the new
\* catalog does not hold
C8_Witness ==
    /\ lastOp.op = "check"
    /\ projects_store # <<>>
    /\ stack # <<>>
    /\ Top.attempts # <<>>
    /\ \A i \in DOMAIN projects_store : projects_store[i].url # Top.attempts[1].argv[1]

\* C9: a check whose group search fails (status not 2xx, or no group found)
\* or whose project listing fails (status not 2xx) ends with an empty
\* catalog, whatever the catalog held before.
C9_FailedCheckEmpties ==
    (/\ lastOp.op = "check"
     /\ \/ lastOp.search_status \notin 200..299
        \/ lastOp.search_body = <<>>
        \/ (lastOp.list_status # 0 /\ lastOp.list_status \notin 200..299)) =>
        projects_store = <<>>

\* a failed listing, in the pump of a run that cloned from a catalog
C9_Witness ==
    /\ lastOp.op = "check"
    /\ lastOp.search_status = 200
    /\ lastOp.search_body # <<>>
    /\ lastOp.list_status = 404
    /\ projects_store = <<>>
    /\ stack # <<>>
    /\ Top.attempts # <<>>

\* C10: when the search succeeds with at least one group, the group resolved
\* is the first of the response, whatever its id, and the check then lists
\* that group: when the listing succeeds, the catalog holds its projects.
C10_FirstMatchLoaded ==
    (/\ lastOp.op = "check"
     /\ lastOp.search_status = 200
     /\ lastOp.search_body # <<>>) =>
        LET listed == ApiFirstPage(ServerProjects(lastOp.search_body[1].id), PerPage)
        IN  /\ get_group_id(lastOp.search_status, lastOp.search_body)
                   = lastOp.search_body[1].id
            /\ lastOp.list_status # 0
            /\ lastOp.list_status = 200 =>
                   /\ Len(projects_store) = Len(listed)
                   /\ \A i \in DOMAIN projects_store :
                          /\ projects_store[i].name = listed[i].name
                          /\ projects_store[i].url = listed[i].ssh_url_to_repo

\* the activations that have a `git clone` running
InFlight == {i \in DOMAIN stack : stack[i].pc = "clone"}

Range(seq) == {seq[i] : i \in DOMAIN seq}

\* C11: clones are strictly sequential, also with handlers dispatched by the
\* pump inside the clone loop: at most one `git clone` runs at any time, and
\* it is the innermost activation's; an activation starts a clone only after
\* the one before it has exited and its progress update has been emitted; and
\* no check (network listing) runs while a clone does.
C11_StrictlySequential ==
    /\ Cardinality(InFlight) <= 1
    /\ \A i \in InFlight : i = Len(stack)
    /\ \A i \in DOMAIN stack :
           /\ Len(stack[i].events) = Len(stack[i].attempts)
           /\ stack[i].cloned_projects = Len(stack[i].attempts)
           /\ i < Len(stack) => stack[i].pc = "pump"
    /\ lastOp.op \in {"check", "toggle", "select_all"} => InFlight = {}

\* a nested "Clone", dispatched by the pump of a run, has its clone running
C11_Witness ==
    /\ Len(stack) = 2
    /\ stack[1].pc = "pump"
    /\ stack[1].attempts # <<>>
    /\ stack[2].pc = "clone"

\* C12: a run attempts every project that was selected when it started, each
\* exactly once and in catalog order, and no project that was not selected
\* then.
C12_AttemptsAreStartSelection ==
    finished.returned =>
        [k \in 1..Len(finished.attempts) |-> finished.attempts[k].argv[1]]
            = finished.selected_at_start

\* C13: in every state of a run, handlers dispatched by the pump included,
\* the counter of cloned projects is the number of clone attempts, it never
\* exceeds the total taken at the start, and every fraction given to the
\* progress bar lies in [0,1].
C13_ProgressAccounting ==
    /\ \A i \in DOMAIN stack :
           /\ stack[i].cloned_projects = Len(stack[i].attempts)
           /\ stack[i].cloned_projects <= stack[i].total_projects
           /\ \A k \in DOMAIN stack[i].events :
                  /\ 0 <= stack[i].events[k][1]
                  /\ stack[i].events[k][1] <= stack[i].events[k][2]
    /\ 0 <= progress_bar[1] /\ progress_bar[1] <= progress_bar[2]

\* C14: no step other than a check changes the number of catalog entries,
\* their order, or the name or url of any entry: toggles, "Select All" and
\* the steps of a run change selected flags at most.
C14_OnlySelectedMutatesStep ==
    lastOp'.op # "check" =>
        /\ Len(projects_store') = Len(projects_store)
        /\ \A i \in DOMAIN projects_store :
               /\ projects_store'[i].name = projects_store[i].name
               /\ projects_store'[i].url = projects_store[i].url

C14_OnlySelectedMutates == [][C14_OnlySelectedMutatesStep]_vars

\* a toggle inside the pump of a run, in a catalog of two entries
C14_Witness ==
    /\ lastOp.op = "toggle"
    /\ Len(projects_store) = 2
    /\ stack # <<>>
    /\ Top.attempts # <<>>

\* C15: a `git clone` that a run starts is for an entry of the catalog as it
\* is then, and that entry's selected flag is true then; a project that a
\* handler deselected earlier in the run is not cloned.
C15_CloneTargetsSelectedEntry ==
    (stack # <<>> /\ Top.pc = "clone") =>
        \E i \in DOMAIN projects_store :
            /\ projects_store[i].url = Top.project_url
            /\ projects_store[i].selected

\* a clone started after handlers ran in the pump of the same run, one of
\* which deselected a project that was selected when the run started
C15_Witness ==
    /\ stack # <<>>
    /\ Top.pc = "clone"
    /\ ~Top.clean
    /\ Top.attempts # <<>>
    /\ \E i \in DOMAIN projects_store :
           /\ ~projects_store[i].selected
           /\ projects_store[i].url \in Range(Top.selected_at_start)

====
